---- MODULE Spec2Model ----
(***************************************************************************)
(* The discrete-event simulation of university_registration_queue.py      *)
(* (PART 2, lines 120-155): registration_simulation() run by the sweep     *)
(* loop, with the SimPy objects it uses (Environment, Resource, Timeout,   *)
(* Process) modelled by what the calls in the source do.                   *)
(*                                                                         *)
(* Time is scaled to small integers.  A call of random.expovariate(1/m)    *)
(* returns m * q, where q is the next quantile of the seeded stream; the   *)
(* stream is unknown, so every q in Quantiles is possible.                 *)
(***************************************************************************)
EXTENDS Integers, Sequences, FiniteSets, TLC

\* ---------------------------------------------------------------- bounds
SIM_TIME == 6            \* the horizon (600 in the source), scaled
DocCapacity == 1         \* capacity of doc_check (5 in the source), scaled
MaxAvg == 2              \* largest mean duration read from the dataset
SIM_INTER_ARRIVAL == 1   \* mean inter-arrival time (60 / 120), scaled

Quantiles == {1, 2}      \* quantiles the random stream hands out
Sweep == <<1, 2>>        \* the capacities of the sweep ([3, 10, 12]), scaled
AvgValues == (-1)..MaxAvg \* avg_doc_check, avg_service: means of the dataset

\* simpy.core priorities: Initialize and the until-event are URGENT
URGENT == 0
NORMAL == 1

GENERATOR == 0           \* process id of generator(); students are 1, 2, ...
Pools == {"doc_check", "registration"}

VARIABLES
    pc,              \* position of the main program
    idx,             \* index of the sweep loop (line 154)
    counters,        \* parameter of registration_simulation
    results,         \* simulation_results: <<counters, mean>> pairs
    error,           \* the exception that ended the program, or "none"
    now,             \* env.now
    queue,           \* env._queue: the scheduled events
    eid,             \* env._eid: insertion counter
    resources,       \* doc_check and registration: capacity, users, put_queue
    student,         \* the student() processes: position and start_wait
    wait_times,      \* line 126
    last,            \* the event executed last in this run
    requested,       \* per pool: students in the order of their requests
    granted,         \* per pool: students in the order of their grants
    owners,          \* per entry of wait_times: the student and grant time
    sweep,           \* the list the sweep loop iterates over
    avg_doc_check,   \* line 55
    avg_service,     \* line 56
    tape,            \* quantiles handed out by the random stream since seed()
    rngpos,          \* number of quantiles consumed since seed()
    recording,       \* whether the stream is kept for a second execution
    exec,            \* which execution of the program this is (1 or 2)
    prev,            \* what the first execution left behind
    twinning,        \* whether a second execution runs alongside
    twin             \* the second execution, on the same seed

progvars == <<pc, idx, counters, results, error, now, queue, eid, resources,
              student, wait_times, last, requested, granted, owners>>
rngvars == <<tape, rngpos>>
cfgvars == <<sweep, avg_doc_check, avg_service, recording, twinning>>
vars == <<progvars, rngvars, cfgvars, exec, prev, twin>>

\* ------------------------------------------------------------ statistics
RECURSIVE Sum(_)
Sum(s) == IF s = <<>> THEN 0 ELSE Head(s) + Sum(Tail(s))

\* statistics.mean as the exact fraction sum / count
mean(data) == [num |-> Sum(data), den |-> Len(data)]

\* random.expovariate(1 / m): -m * ln(1 - u), here m times the quantile
expovariate(m, q) == m * q

\* ------------------------------------------------ one program execution
NoEvent == [t |-> -1, prio |-> NORMAL, eid |-> -1, kind |-> "none",
            proc |-> -1, res |-> "none", exc |-> "none"]

\* the execution the variables hold, as a record
Cur == [pc |-> pc, idx |-> idx, counters |-> counters, results |-> results,
        error |-> error, now |-> now, queue |-> queue, eid |-> eid,
        resources |-> resources, student |-> student,
        wait_times |-> wait_times, last |-> last,
        requested |-> requested, granted |-> granted, owners |-> owners]

Install(s) ==
    /\ pc' = s.pc
    /\ idx' = s.idx
    /\ counters' = s.counters
    /\ results' = s.results
    /\ error' = s.error
    /\ now' = s.now
    /\ queue' = s.queue
    /\ eid' = s.eid
    /\ resources' = s.resources
    /\ student' = s.student
    /\ wait_times' = s.wait_times
    /\ last' = s.last
    /\ requested' = s.requested
    /\ granted' = s.granted
    /\ owners' = s.owners

\* simpy.Resource(env, capacity)
Resource(capacity) == [capacity |-> capacity, users |-> {}, put_queue |-> <<>>]

\* Resource.count
count(pl) == Cardinality(pl.users)

\* lines 151-152: the program before its first run
Program ==
    [pc |-> "sweep", idx |-> 1, counters |-> 0, results |-> <<>>,
     error |-> "none", now |-> 0, queue |-> {}, eid |-> 0,
     resources |-> [r \in Pools |-> Resource(0)],
     student |-> <<>>, wait_times |-> <<>>, last |-> NoEvent,
     requested |-> [r \in Pools |-> <<>>],
     granted |-> [r \in Pools |-> <<>>],
     owners |-> <<>>]

\* lines 155, 124-126: simpy.Environment(), the two resources, the wait list
Fresh(s, c) ==
    [s EXCEPT !.counters = c, !.now = 0, !.queue = {}, !.eid = 0,
              !.resources = [r \in Pools |->
                               IF r = "doc_check" THEN Resource(DocCapacity)
                                                  ELSE Resource(c)],
              !.student = <<>>, !.wait_times = <<>>, !.last = NoEvent,
              !.requested = [r \in Pools |-> <<>>],
              !.granted = [r \in Pools |-> <<>>],
              !.owners = <<>>]

\* ---------------------------------------------------------- Environment
\* Environment.schedule: heappush (now + delay, priority, eid, event)
schedule_abs(s, prio, delay, kind, p, r, exc) ==
    [s EXCEPT !.queue = @ \cup {[t |-> delay, prio |-> prio, eid |-> s.eid,
                                 kind |-> kind, proc |-> p, res |-> r,
                                 exc |-> exc]},
              !.eid = @ + 1]

schedule(s, prio, delay, kind, p, r, exc) ==
    [s EXCEPT !.queue = @ \cup {[t |-> s.now + delay, prio |-> prio,
                                 eid |-> s.eid, kind |-> kind, proc |-> p,
                                 res |-> r, exc |-> exc]},
              !.eid = @ + 1]

\* the heap order of env._queue: (time, priority, eid)
Before_time_only(e, f) == e.t <= f.t

Before_newest_first(e, f) ==
    \/ e.t < f.t
    \/ e.t = f.t /\ e.prio < f.prio
    \/ e.t = f.t /\ e.prio = f.prio /\ e.eid > f.eid

Before_urgent_last(e, f) ==
    \/ e.t < f.t
    \/ e.t = f.t /\ e.prio > f.prio
    \/ e.t = f.t /\ e.prio = f.prio /\ e.eid < f.eid

Before(e, f) ==
    \/ e.t < f.t
    \/ e.t = f.t /\ e.prio < f.prio
    \/ e.t = f.t /\ e.prio = f.prio /\ e.eid < f.eid

\* the event heappop returns
Ready(q) == {e \in q : \A f \in q : f = e \/ Before(e, f)}

\* Environment.step, first half: pop the event and advance the clock
Pop(s, e) == [s EXCEPT !.now = e.t, !.queue = @ \ {e}, !.last = e]

\* env.timeout(delay)
timeout(s, delay, p) ==
    schedule(s, NORMAL, delay, "Timeout", p, "none", "none")

\* the end of a process: its event is scheduled, failed if it raised
process_end(s, p, exc) == schedule(s, NORMAL, 0, "Process", p, "none", exc)

\* ------------------------------------------------------------- Resource
\* Resource._do_put: the test that grants a unit
do_put_ok_le(pl) == count(pl) <= pl.capacity

do_put_ok(pl) == count(pl) < pl.capacity

\* BaseResource._trigger_put: try the request at the head of put_queue
trigger_put_lifo(s, r) ==
    LET pl == s.resources[r] IN
    IF Len(pl.put_queue) > 0 /\ do_put_ok(pl)
    THEN LET p == pl.put_queue[Len(pl.put_queue)] IN
         schedule([s EXCEPT !.resources[r].users = @ \cup {p},
                            !.resources[r].put_queue =
                                SubSeq(@, 1, Len(@) - 1),
                            !.granted[r] = Append(@, p)],
                  NORMAL, 0, "Request", p, r, "none")
    ELSE s

trigger_put(s, r) ==
    LET pl == s.resources[r] IN
    IF Len(pl.put_queue) > 0 /\ do_put_ok(pl)
    THEN LET p == Head(pl.put_queue) IN
         schedule([s EXCEPT !.resources[r].users = @ \cup {p},
                            !.resources[r].put_queue = Tail(@),
                            !.granted[r] = Append(@, p)],
                  NORMAL, 0, "Request", p, r, "none")
    ELSE s

\* resource.request(): Request.__init__ appends to put_queue and triggers
request(s, r, p) ==
    trigger_put([s EXCEPT !.resources[r].put_queue = Append(@, p),
                          !.requested[r] = Append(@, p)], r)

\* leaving the with block: Request.__exit__ -> resource.release(req);
\* Release.__init__ removes the user at once and schedules the Release event
release_keep(s, r, p) ==
    schedule(s, NORMAL, 0, "Release", p, r, "none")

release_silent(s, r, p) ==
    [s EXCEPT !.resources[r].users = @ \ {p}]

release_handoff(s, r, p) ==
    trigger_put([s EXCEPT !.resources[r].users = @ \ {p}], r)

release(s, r, p) ==
    schedule([s EXCEPT !.resources[r].users = @ \ {p}],
             NORMAL, 0, "Release", p, r, "none")

\* ------------------------------------------------------------- student()
SetPc(s, p, to) == [s EXCEPT !.student[p].pc = to]

\* 1 / m divides by zero; a negative mean gives env.timeout a negative delay
Raises(m) == m <= 0
Raised(m) == IF m = 0 THEN "ZeroDivisionError" ELSE "ValueError"

\* lines 129-130: the process starts and requests doc_check
student_start(s, p) == SetPc(request(s, "doc_check", p), p, "doc_req")

\* line 131: doc_check granted; sample the document check and sleep.
\* An exception leaves the with block (release) and fails the process.
student_doc_granted(s, p, q) ==
    IF Raises(avg_doc_check)
    THEN SetPc(process_end(release(s, "doc_check", p), p,
                           Raised(avg_doc_check)), p, "failed")
    ELSE SetPc(timeout(s, expovariate(avg_doc_check, q), p), p, "doc_svc")

student_doc_done_nostart(s, p) ==
    SetPc(request(release(s, "doc_check", p), "registration", p), p, "reg_req")

\* lines 131-135: document check over; release, note the time, request
student_doc_done(s, p) ==
    LET s1 == release(s, "doc_check", p)
        s2 == [s1 EXCEPT !.student[p].start_wait = s1.now]
    IN SetPc(request(s2, "registration", p), p, "reg_req")

\* lines 136-137: registration granted; record the wait, sample, sleep
student_reg_granted_norecord(s, p, q) ==
    IF Raises(avg_service)
    THEN SetPc(process_end(release(s, "registration", p), p,
                           Raised(avg_service)), p, "failed")
    ELSE SetPc(timeout(s, expovariate(avg_service, q), p), p, "reg_svc")

student_reg_granted(s, p, q) ==
    LET s1 == [s EXCEPT !.wait_times =
                            Append(@, s.now - s.student[p].start_wait),
                        !.owners = Append(@, [p |-> p, at |-> s.now])]
    IN IF Raises(avg_service)
       THEN SetPc(process_end(release(s1, "registration", p), p,
                              Raised(avg_service)), p, "failed")
       ELSE SetPc(timeout(s1, expovariate(avg_service, q), p), p, "reg_svc")

\* line 137 and the end of student(): release and terminate
student_reg_done(s, p) ==
    SetPc(process_end(release(s, "registration", p), p, "none"), p, "done")

\* ----------------------------------------------------------- generator()
\* env.process(student()): a new process whose Initialize event is URGENT
process(s) ==
    LET p == Len(s.student) + 1 IN
    schedule([s EXCEPT !.student = Append(@, [pc |-> "start",
                                              start_wait |-> 0])],
             URGENT, 0, "Initialize", p, "none", "none")

\* line 141: sample the next inter-arrival time and sleep
generator_sleep(s, q) ==
    timeout(s, expovariate(SIM_INTER_ARRIVAL, q), GENERATOR)

generator_arrival_once(s, q) == process(s)

\* lines 142, 141: spawn a student, then sleep again
generator_arrival(s, q) == generator_sleep(process(s), q)

\* ------------------------------------------------------------- env.run()
\* line 145: the until-event is scheduled URGENT, (until - now) from now
until_delay_late(at, t) == at - t + 1

until_delay_early(at, t) == at - t - 1

until_delay(at, t) == at - t

\* lines 154-155, 124-126, 144 and the start of line 145
start_run(s) ==
    LET s0 == Fresh(s, sweep[s.idx])
        s1 == schedule(s0, URGENT, 0, "Initialize", GENERATOR, "none", "none")
        s2 == schedule(s1, URGENT, until_delay(SIM_TIME, s1.now),
                       "Until", -1, "none", "none")
    IN [s2 EXCEPT !.pc = "run"]

\* whether executing e makes its process call random.expovariate
Draws(e) ==
    \/ e.proc = GENERATOR /\ e.kind \in {"Initialize", "Timeout"}
    \/ e.kind = "Request" /\ e.res = "doc_check" /\ ~Raises(avg_doc_check)
    \/ e.kind = "Request" /\ e.res = "registration" /\ ~Raises(avg_service)

\* Environment.step: pop e, run its callbacks; q is the quantile drawn
step(s, e, q) ==
    LET s1 == Pop(s, e)
        p == e.proc
    IN CASE e.kind = "Initialize" ->
              IF p = GENERATOR THEN generator_sleep(s1, q)
                               ELSE student_start(s1, p)
         [] e.kind = "Timeout" ->
              IF p = GENERATOR THEN generator_arrival(s1, q)
              ELSE IF s1.student[p].pc = "doc_svc"
                   THEN student_doc_done(s1, p)
                   ELSE student_reg_done(s1, p)
         [] e.kind = "Request" ->
              IF e.res = "doc_check" THEN student_doc_granted(s1, p, q)
                                     ELSE student_reg_granted(s1, p, q)
         [] e.kind = "Release" -> trigger_put(s1, e.res)
         [] e.kind = "Process" ->
              IF e.exc = "none" THEN s1
              ELSE [s1 EXCEPT !.pc = "crashed", !.error = e.exc]
         [] e.kind = "Until" -> [s1 EXCEPT !.pc = "mean"]

finalize_drain(s) ==
    LET s0 == [s EXCEPT !.resources =
                   [r \in Pools |-> Resource(s.resources[r].capacity)]]
    IN IF s0.wait_times = <<>>
       THEN [s0 EXCEPT !.pc = "crashed", !.error = "StatisticsError"]
       ELSE [s0 EXCEPT !.results =
                           Append(@, <<s0.counters, mean(s0.wait_times)>>),
                       !.idx = @ + 1,
                       !.pc = IF s0.idx = Len(sweep) THEN "finished"
                                                     ELSE "sweep"]

\* lines 147-148: statistics.mean raises StatisticsError on an empty list
finalize(s) ==
    IF s.wait_times = <<>>
    THEN [s EXCEPT !.pc = "crashed", !.error = "StatisticsError"]
    ELSE [s EXCEPT !.results = Append(@, <<s.counters, mean(s.wait_times)>>),
                   !.idx = @ + 1,
                   !.pc = IF s.idx = Len(sweep) THEN "finished" ELSE "sweep"]

\* what an execution in state s can do next, given the quantile q
Succ(s, q) ==
    CASE s.pc = "sweep" -> {start_run(s)}
      [] s.pc = "run" -> {step(s, e, q) : e \in Ready(s.queue)}
      [] s.pc = "mean" -> {finalize(s)}
      [] OTHER -> {s}

\* ------------------------------------------------------------ the stream
\* the next quantile of the stream: replayed if the stream has been there
Draw(q) ==
    /\ IF rngpos < Len(tape) THEN q = tape[rngpos + 1] ELSE TRUE
    /\ tape' = IF recording /\ rngpos >= Len(tape) THEN Append(tape, q)
               ELSE tape
    /\ rngpos' = IF recording THEN rngpos + 1 ELSE rngpos

NoDraw == UNCHANGED rngvars

\* the second execution takes its own next step on the same quantile
Twin(q) == IF twinning THEN twin' \in Succ(twin, q) ELSE twin' = twin

\* ---------------------------------------------------------------- actions
Do(e) ==
    /\ IF Draws(e)
       THEN \E q \in Quantiles :
                /\ Draw(q)
                /\ Install(step(Cur, e, q))
                /\ Twin(q)
       ELSE /\ NoDraw
            /\ Install(step(Cur, e, 0))
            /\ Twin(0)
    /\ UNCHANGED <<cfgvars, exec, prev>>

StartRun ==
    /\ pc = "sweep"
    /\ Install(start_run(Cur))
    /\ NoDraw
    /\ Twin(0)
    /\ UNCHANGED <<cfgvars, exec, prev>>

\* Initialize: a process starts
ExecInitialize ==
    /\ pc = "run"
    /\ \E e \in Ready(queue) : e.kind = "Initialize" /\ Do(e)

\* Timeout: the sleeping process resumes
ExecTimeout ==
    /\ pc = "run"
    /\ \E e \in Ready(queue) : e.kind = "Timeout" /\ Do(e)

\* Request: the granted request resumes its student
ExecRequest ==
    /\ pc = "run"
    /\ \E e \in Ready(queue) : e.kind = "Request" /\ Do(e)

\* Release: its callback _trigger_put serves the head of put_queue
ExecRelease ==
    /\ pc = "run"
    /\ \E e \in Ready(queue) : e.kind = "Release" /\ Do(e)

\* Process: a process ended; Environment.step raises what a failed one raised
ExecProcess ==
    /\ pc = "run"
    /\ \E e \in Ready(queue) : e.kind = "Process" /\ Do(e)

\* the until-event: StopSimulation, env.run returns
ExecUntil ==
    /\ pc = "run"
    /\ \E e \in Ready(queue) : e.kind = "Until" /\ Do(e)

Finalize ==
    /\ pc = "mean"
    /\ Install(finalize(Cur))
    /\ NoDraw
    /\ Twin(0)
    /\ UNCHANGED <<cfgvars, exec, prev>>

\* ------------------------------------------------------ specifications
\* what an execution of the program leaves behind
NoExecution == [sweep |-> <<>>, wait_times |-> <<>>, results |-> <<>>,
                error |-> "none", pc |-> "none"]

Capacities == {Sweep[i] : i \in DOMAIN Sweep}

InitCommon ==
    /\ pc = "sweep"
    /\ idx = 1
    /\ counters = 0
    /\ results = <<>>
    /\ error = "none"
    /\ now = 0
    /\ queue = {}
    /\ eid = 0
    /\ resources = [r \in Pools |-> Resource(0)]
    /\ student = <<>>
    /\ wait_times = <<>>
    /\ last = NoEvent
    /\ requested = [r \in Pools |-> <<>>]
    /\ granted = [r \in Pools |-> <<>>]
    /\ owners = <<>>
    /\ avg_doc_check \in AvgValues
    /\ avg_service \in AvgValues
    /\ tape = <<>>
    /\ rngpos = 0
    /\ exec = 1
    /\ prev = NoExecution
    /\ twin = Program

\* the program as it is: one execution, the sweep of line 154
Init ==
    /\ InitCommon
    /\ sweep = Sweep
    /\ recording = FALSE
    /\ twinning = FALSE

Next ==
    \/ StartRun
    \/ ExecInitialize
    \/ ExecTimeout
    \/ ExecRequest
    \/ ExecRelease
    \/ ExecProcess
    \/ ExecUntil
    \/ Finalize

Spec == Init /\ [][Next]_vars

\* the interpreter runs the program on: whenever a statement or an event
\* can be executed, one eventually is
SpecFair == Spec /\ WF_vars(Next)

\* two executions of the program side by side on the same seed
InitTwin ==
    /\ InitCommon
    /\ sweep = Sweep
    /\ recording = FALSE
    /\ twinning = TRUE

SpecTwin == InitTwin /\ [][Next]_vars

\* The program is executed a second time: line 151 seeds the stream again,
\* so it hands out the same quantiles, and line 152 empties the results.
\* The second execution sweeps one capacity, not below that of the first.
Rerun ==
    /\ recording
    /\ exec = 1
    /\ pc \in {"finished", "crashed"}
    /\ exec' = 2
    /\ prev' = [sweep |-> sweep, wait_times |-> wait_times,
                results |-> results, error |-> error, pc |-> pc]
    /\ \E c \in Capacities : c >= sweep[1] /\ sweep' = <<c>>
    /\ rngpos' = 0
    /\ Install(Program)
    /\ UNCHANGED <<tape, avg_doc_check, avg_service, recording, twinning,
                   twin>>

\* two executions one after the other on the same seed, one capacity each
InitReplay ==
    /\ InitCommon
    /\ sweep \in {<<c>> : c \in Capacities}
    /\ recording = TRUE
    /\ twinning = FALSE

NextReplay == Next \/ Rerun

SpecReplay == InitReplay /\ [][NextReplay]_vars

\* ================================================================ claims
IsPrefix(a, b) == Len(a) <= Len(b) /\ SubSeq(b, 1, Len(a)) = a

Running == pc \in {"run", "mean"}

\* C1: in every reachable state both pools have 0 <= in_use <= capacity,
\* doc_check with its fixed capacity and registration with capacity counters.
C1_InUseWithinCapacity ==
    Running =>
        /\ resources["doc_check"].capacity = DocCapacity
        /\ resources["registration"].capacity = counters
        /\ \A r \in Pools :
            /\ 0 <= count(resources[r])
            /\ count(resources[r]) <= resources[r].capacity

\* registration is full while two students wait for it
C1_Witness ==
    /\ count(resources["registration"]) = counters
    /\ Len(resources["registration"].put_queue) >= 2

\* C2: each pool grants its units in the order of the requests: the students
\* granted so far are the first requesters, in request order, and those still
\* waiting are the remaining ones, in request order.
C2_FifoGrants ==
    \A r \in Pools :
        /\ IsPrefix(granted[r], requested[r])
        /\ requested[r] = granted[r] \o resources[r].put_queue

\* a release has just handed a unit to the head of a queue of two or more
C2_Witness ==
    LET r == "registration" IN
    /\ last.kind = "Release"
    /\ last.res = r
    /\ Len(resources[r].put_queue) >= 1
    /\ \E e \in queue : e.kind = "Request" /\ e.res = r /\ e.eid = eid - 1

\* C3: the clock never exceeds the horizon, no event due after the horizon is
\* executed, and every recorded wait was recorded at a grant not after it.
C3_HorizonCutoff ==
    /\ now <= SIM_TIME
    /\ last.t <= SIM_TIME
    /\ \A i \in DOMAIN owners : owners[i].at <= SIM_TIME

\* the run has stopped with waits recorded and events left beyond the horizon
C3_Witness ==
    /\ pc = "mean"
    /\ wait_times # <<>>
    /\ \E e \in queue : e.t > SIM_TIME

\* C4: two executions on the same seed and parameters are in the same state
\* after every step (same events executed, same grants, releases, samples,
\* waits and results), and the next event is always uniquely determined.
C4_Deterministic ==
    /\ twinning => twin = Cur
    /\ pc = "run" => Cardinality(Ready(queue)) = 1

\* both executions have finished the sweep with the same results
C4_Witness ==
    /\ twinning
    /\ pc = "finished"
    /\ twin.pc = "finished"
    /\ Len(results) = Len(Sweep)
    /\ \E i \in DOMAIN results : results[i][2].num > 0

\* C5: with the same seed and workload, the mean recorded wait at a capacity
\* c2 >= c1 is at most the mean recorded wait at c1.
C5_MeanMonotoneInCapacity ==
    (exec = 2 /\ pc = "finished" /\ prev.pc = "finished"
        /\ sweep[1] >= prev.sweep[1]) =>
        results[1][2].num * prev.results[1][2].den
            <= prev.results[1][2].num * results[1][2].den

\* C6: a run that recorded no wait is reported as a result, not as a crash.
C6_DegenerateRunReported ==
    ~(pc = "crashed" /\ error = "StatisticsError")

\* C7: invalid parameters are rejected before anything is scheduled: when
\* the program ends on a parameter error, no event was scheduled or run.
C7_InvalidParameterRejectedEarly ==
    error \in {"ZeroDivisionError", "ValueError"} =>
        /\ eid = 0
        /\ queue = {}
        /\ last = NoEvent
        /\ student = <<>>

\* C8: the clock of a run starts at 0 and never decreases; after an event is
\* executed the clock is that event's due time.
C8_ClockMonotone ==
    [][/\ pc = "sweep" /\ pc' = "run" => now' = 0
       /\ pc = "run" => (now' >= now /\ now' = last'.t /\ last' \in queue)
      ]_vars

\* the clock has advanced to the due time of an executed timeout
C8_Witness == pc = "run" /\ now >= 2 /\ last.kind = "Timeout" /\ last.t = now

\* C9 (as claimed): among events with the same due time, the one executed is
\* the one inserted first, whatever its kind.
C9_TieBreakInsertionOrder ==
    [][pc = "run" =>
          \A f \in queue : (f # last' /\ f.t = last'.t) => last'.eid < f.eid
      ]_vars

\* C9 (amended): the event executed is the earliest due; among events with the
\* same due time URGENT ones (process starts, the until-event) go before
\* NORMAL ones, and within one priority the one inserted first goes first.
C9_TieBreakPriorityThenInsertion ==
    [][pc = "run" =>
          \A f \in queue : f # last' =>
              \/ last'.t < f.t
              \/ last'.t = f.t /\ last'.prio < f.prio
              \/ last'.t = f.t /\ last'.prio = f.prio /\ last'.eid < f.eid
      ]_vars

\* a student's start has run ahead of an event inserted before it, same time
C9_Witness ==
    /\ last.kind = "Initialize"
    /\ \E f \in queue : f.t = last.t /\ f.eid < last.eid

WaitOwners == {owners[i].p : i \in DOMAIN owners}

\* C10 (as claimed): at finalization the wait list holds waits only of
\* students that completed both stages.
C10_OnlyCompletedCounted ==
    pc = "mean" => \A p \in WaitOwners : student[p].pc = "done"

\* C10 (amended): at finalization the wait list holds exactly one wait for
\* each student granted a registration unit, in service or done, and none for
\* a student still waiting for registration or in document check.
C10_GrantedCounted ==
    pc = "mean" =>
        /\ WaitOwners = {p \in DOMAIN student :
                            student[p].pc \in {"reg_svc", "done"}}
        /\ Cardinality(WaitOwners) = Len(owners)
        /\ Len(wait_times) = Len(owners)

\* the run stopped while a student with a recorded wait was still in service
C10_Witness ==
    /\ pc = "mean"
    /\ \E p \in WaitOwners : student[p].pc = "reg_svc"
    /\ \E p \in DOMAIN student : student[p].pc = "reg_req"

\* C11 (as claimed): the run executes every event due at or before the
\* horizon: when it has stopped, no such event is left in the queue.
C11_RunsThroughHorizon ==
    pc = "mean" => \A e \in queue : e.t > SIM_TIME

\* C11 (amended): the run executes every event due strictly before the
\* horizon and stops at the horizon itself, on the until-event: an event
\* due exactly at the horizon is left in the queue and never executed.
C11_StopsAtHorizon ==
    /\ (pc = "run" /\ last # NoEvent) => last.t < SIM_TIME
    /\ pc = "mean" =>
        /\ last.kind = "Until"
        /\ now = SIM_TIME
        /\ \A e \in queue : e.t >= SIM_TIME

\* the run has stopped and left behind an event due exactly at the horizon
C11_Witness == pc = "mean" /\ \E e \in queue : e.t = SIM_TIME

\* student p leaves the with block of pool r in this step
Releases(r, p) ==
    /\ pc = "run"
    /\ p \in DOMAIN student /\ p \in DOMAIN student'
    /\ IF r = "doc_check"
       THEN /\ student[p].pc \in {"doc_req", "doc_svc"}
            /\ student'[p].pc \in {"reg_req", "failed"}
       ELSE /\ student[p].pc \in {"reg_req", "reg_svc"}
            /\ student'[p].pc \in {"done", "failed"}

\* a Release event of pool r is due at time t in event set q
ReleasePending(q, r, t) ==
    \E e \in q : e.kind = "Release" /\ e.res = r /\ e.t = t

\* C12 (as claimed): a release with waiters hands the unit to the earliest
\* waiter in the same step, so in_use is the same after the release.
C12_HandOffInReleaseStep ==
    [][\A r \in Pools : \A p \in DOMAIN student :
         (Releases(r, p) /\ resources[r].put_queue # <<>>) =>
            /\ count(resources'[r]) = count(resources[r])
            /\ Head(resources[r].put_queue) \in resources'[r].users
            /\ resources'[r].put_queue = Tail(resources[r].put_queue)]_vars

\* C12 (amended): a release takes the unit back in its own step (in_use
\* drops by exactly one, waiters or not, the queue is untouched) and leaves
\* a Release event due at the current time; a waiter is granted only as the
\* earliest in the queue, resumes at the time of the grant, and is granted
\* at the time of a release: by the Release event or while one is pending.
C12_HandOffAtReleaseTime ==
    [][\A r \in Pools :
         /\ \A p \in DOMAIN student :
              Releases(r, p) =>
                 /\ count(resources'[r]) = count(resources[r]) - 1
                 /\ p \notin resources'[r].users
                 /\ resources'[r].put_queue = resources[r].put_queue
                 /\ ReleasePending(queue', r, now')
         /\ (pc = "run" /\ pc' = "run" /\ resources[r].put_queue # <<>>) =>
              \A w \in resources'[r].users \ resources[r].users :
                 /\ w = Head(resources[r].put_queue)
                 /\ \E e \in queue' : /\ e.kind = "Request" /\ e.proc = w
                                      /\ e.res = r /\ e.t = now'
                 /\ \/ last'.kind = "Release" /\ last'.res = r
                       /\ last'.t = now'
                    \/ ReleasePending(queue', r, now')]_vars

\* a Release event has just handed registration to a student who waited
C12_Witness ==
    /\ pc = "run"
    /\ last.kind = "Release" /\ last.res = "registration"
    /\ \E e \in queue : /\ e.kind = "Request" /\ e.res = "registration"
                        /\ e.t = now /\ e.eid > last.eid
                        /\ student[e.proc].start_wait < now

\* student p enters the with block of pool r (requests it) in this step
Requests(r, p) ==
    /\ pc = "run"
    /\ p \in DOMAIN student /\ p \in DOMAIN student'
    /\ IF r = "doc_check"
       THEN student[p].pc = "start" /\ student'[p].pc = "doc_req"
       ELSE student[p].pc = "doc_svc" /\ student'[p].pc = "reg_req"

InQueue(pl, p) == \E i \in DOMAIN pl.put_queue : pl.put_queue[i] = p

\* C13 (as claimed): between event executions a pool with waiters has every
\* unit in use.
C13_WorkConserving ==
    \A r \in Pools :
        resources[r].put_queue # <<>> =>
            count(resources[r]) = resources[r].capacity

\* C13 (amended): a pool has waiters and a free unit only while a Release
\* event of that pool is due at the current time, so never across an
\* advance of the clock; a request that finds a free unit and no waiter is
\* granted in its own step without staying queued, and any other request
\* is queued behind the waiters.
C13_WorkConservingPerInstant ==
    /\ [](\A r \in Pools :
            (resources[r].put_queue # <<>>
               /\ count(resources[r]) < resources[r].capacity) =>
                ReleasePending(queue, r, now))
    /\ [][\A r \in Pools : \A p \in DOMAIN student :
            Requests(r, p) =>
               IF resources[r].put_queue = <<>>
                  /\ count(resources[r]) < resources[r].capacity
               THEN /\ p \in resources'[r].users
                    /\ resources'[r].put_queue = <<>>
                    /\ \E e \in queue' : /\ e.kind = "Request" /\ e.proc = p
                                         /\ e.res = r /\ e.t = now'
               ELSE /\ p \notin resources'[r].users
                    /\ resources'[r].put_queue # <<>>
                    /\ resources'[r].put_queue[Len(resources'[r].put_queue)]
                          = p]_vars

\* a unit is free while a student waits: the release has happened and its
\* Release event is still pending
C13_Witness ==
    /\ pc = "run"
    /\ \E r \in Pools : /\ resources[r].put_queue # <<>>
                        /\ count(resources[r]) < resources[r].capacity
                        /\ ReleasePending(queue, r, now)

\* C14: every recorded wait is the time of the student's registration grant
\* minus the time the student released doc_check (start_wait); it is never
\* negative, and it is 0 when the request found a free unit and no waiter.
C14_WaitIsGrantMinusRelease ==
    /\ [](\A i \in DOMAIN wait_times :
            /\ wait_times[i] = owners[i].at - student[owners[i].p].start_wait
            /\ wait_times[i] >= 0)
    /\ [][\A p \in DOMAIN student :
            /\ (Releases("doc_check", p) /\ student'[p].pc = "reg_req") =>
                  student'[p].start_wait = now'
            /\ (Requests("registration", p)
                  /\ resources["registration"].put_queue = <<>>
                  /\ count(resources["registration"])
                        < resources["registration"].capacity) =>
                  \E e \in queue' : /\ e.kind = "Request" /\ e.proc = p
                                    /\ e.res = "registration"
                                    /\ e.t = student'[p].start_wait
            /\ (pc = "run" /\ pc' = "run" /\ last'.kind = "Request"
                  /\ last'.res = "registration" /\ last'.proc = p) =>
                  /\ wait_times' = Append(wait_times,
                                          last'.t - student[p].start_wait)
                  /\ owners'[Len(owners')] = [p |-> p, at |-> last'.t]]_vars

\* one student was recorded with no wait and a later one with a positive wait
C14_Witness ==
    \E i, j \in DOMAIN wait_times :
        i < j /\ wait_times[i] = 0 /\ wait_times[j] > 0

\* the order of a student's steps: the only position that follows each one
NextStep(at) ==
    CASE at = "start"   -> "doc_req"
      [] at = "doc_req" -> "doc_svc"
      [] at = "doc_svc" -> "reg_req"
      [] at = "reg_req" -> "reg_svc"
      [] at = "reg_svc" -> "done"
      [] OTHER          -> at

\* C15: each student goes through request doc_check, grant, delay, release,
\* request registration, grant, record the wait, delay, release, end, in
\* this order with no step skipped, repeated or reordered; it neither
\* requests nor holds registration before it released doc_check, adds at
\* most one entry to wait_times and none for the first stage.
C15_StudentSequence ==
    /\ [](\A p \in DOMAIN student :
            /\ student[p].pc \in {"start", "doc_req", "doc_svc"} =>
                  /\ p \notin resources["registration"].users
                  /\ ~InQueue(resources["registration"], p)
            /\ student[p].pc \in {"reg_req", "reg_svc", "done"} =>
                  p \notin resources["doc_check"].users
            /\ Cardinality({i \in DOMAIN owners : owners[i].p = p}) <= 1
            /\ (\E i \in DOMAIN owners : owners[i].p = p) =>
                  student[p].pc \in {"reg_svc", "done"})
    /\ [][pc = "run" /\ pc' = "run" =>
            /\ \A p \in DOMAIN student :
                 \/ student'[p].pc = student[p].pc
                 \/ student'[p].pc = NextStep(student[p].pc)
            /\ Len(wait_times') > Len(wait_times) =>
                 \E p \in DOMAIN student :
                    /\ student[p].pc = "reg_req"
                    /\ student'[p].pc = "reg_svc"
                    /\ Len(wait_times') = Len(wait_times) + 1]_vars

\* the pending events of the generator process
GeneratorEvents == {e \in queue : e.proc = GENERATOR}

\* C16: while a run is in progress the event queue is never empty: the
\* generator has exactly one pending event (its start, then always its next
\* arrival), it spawns exactly one student each time it resumes and no
\* student is spawned otherwise; it never ends by itself: when the run has
\* stopped its next arrival is still queued, at or after the horizon.
C16_GeneratorAlwaysPending ==
    /\ [](pc \in {"run", "mean", "crashed"} =>
            /\ queue # {}
            /\ Cardinality(GeneratorEvents) = 1
            /\ \A e \in GeneratorEvents : e.kind \in {"Initialize", "Timeout"}
            /\ pc = "run" => now < SIM_TIME
            /\ pc = "mean" => \A e \in GeneratorEvents : e.t >= SIM_TIME)
    /\ [][(pc = "run" /\ pc' \in {"run", "mean", "crashed"}) =>
            IF last'.kind = "Timeout" /\ last'.proc = GENERATOR
            THEN Len(student') = Len(student) + 1
            ELSE Len(student') = Len(student)]_vars

\* the run stopped at the horizon after three arrivals, the fourth pending
C16_Witness ==
    /\ pc = "mean"
    /\ Len(student) = 3
    /\ \E e \in GeneratorEvents : e.kind = "Timeout" /\ e.t > SIM_TIME

\* C17: the horizon cutoff and the computation of the mean leave the pools
\* and the students exactly as the last executed event left them: no unit
\* is released, no waiter is granted and no wait is recorded in between.
C17_CutoffLeavesPools ==
    [][(pc = "run" /\ pc' = "mean") \/ pc = "mean" =>
         /\ resources' = resources
         /\ student' = student
         /\ requested' = requested
         /\ granted' = granted
         /\ wait_times' = wait_times
         /\ queue' \subseteq queue]_vars

\* a run has ended and produced its result with a student still in service
\* at registration and another still waiting for it
C17_Witness ==
    /\ pc = "sweep" /\ idx = 2
    /\ resources["registration"].put_queue # <<>>
    /\ \E p \in resources["registration"].users : student[p].pc = "reg_svc"

\* C18: every run of the sweep starts from fresh state (clock 0, only the
\* events of its own start queued, both pools unused and without waiters,
\* no wait, no student) whatever the previous run left; runs follow one
\* another, and when the program ends exactly one result per configuration
\* has been appended, in the order of the sweep.
C18_FreshRunsOneResultEach ==
    /\ [](/\ Len(results) = idx - 1
          /\ \A i \in DOMAIN results : results[i][1] = sweep[i]
          /\ pc \in {"finished", "crashed"} => Len(results) = Len(sweep))
    /\ [][(pc = "sweep" /\ pc' = "run") =>
            /\ now' = 0
            /\ counters' = sweep[idx]
            /\ \A e \in queue' : e.t \in {0, SIM_TIME} /\ e.eid \in {0, 1}
            /\ \A r \in Pools : /\ resources'[r].users = {}
                                /\ resources'[r].put_queue = <<>>
            /\ resources'["registration"].capacity = sweep[idx]
            /\ wait_times' = <<>>
            /\ student' = <<>>
            /\ results' = results]_vars

\* C19 (as claimed): a run with positive delays stops at the horizon, the
\* program ends, and a result is produced only after the run has stopped,
\* with no event due at or before the horizon still pending.
C19_TerminatesNothingPending ==
    /\ (pc = "run" /\ avg_doc_check > 0 /\ avg_service > 0) ~> (pc = "mean")
    /\ <>(pc \in {"finished", "crashed"})
    /\ [][results' # results =>
            /\ pc = "mean"
            /\ \A e \in queue : e.t > SIM_TIME]_vars

\* C19 (amended): a run with positive delays stops at the horizon, the
\* program ends, and a result is produced only after the run has stopped
\* on the until-event at the horizon, with no event due before the horizon
\* still pending; events due at the horizon itself may be pending.
C19_TerminatesAtHorizon ==
    /\ (pc = "run" /\ avg_doc_check > 0 /\ avg_service > 0) ~> (pc = "mean")
    /\ <>(pc \in {"finished", "crashed"})
    /\ [][results' # results =>
            /\ pc = "mean"
            /\ last.kind = "Until"
            /\ now = SIM_TIME
            /\ \A e \in queue : e.t >= SIM_TIME
            /\ Len(results') = Len(results) + 1]_vars

\* the program has ended with a result for every configuration, the last
\* one produced while an event due at the horizon was pending
C19_Witness ==
    /\ pc = "finished"
    /\ Len(results) = Len(sweep)
    /\ now = SIM_TIME
    /\ \E e \in queue : e.t = SIM_TIME /\ e.kind = "Timeout"

\* student p has been granted a unit of pool r and has not released it:
\* it is in service there, or its grant is made and it has yet to resume
Holds(r, p) ==
    LET req == IF r = "doc_check" THEN "doc_req" ELSE "reg_req"
        svc == IF r = "doc_check" THEN "doc_svc" ELSE "reg_svc"
    IN \/ student[p].pc = svc
       \/ /\ student[p].pc = req
          /\ \E e \in queue : e.kind = "Request" /\ e.proc = p /\ e.res = r

\* C20: between event executions the units in use of each pool are exactly
\* the students that hold one (granted and not yet released); a student
\* holds at most one unit over both pools, is never holder and waiter of
\* the same pool, and is never twice in a waiters queue.
C20_UnitAccounting ==
    /\ \A r \in Pools :
         /\ resources[r].users = {p \in DOMAIN student : Holds(r, p)}
         /\ count(resources[r])
               = Cardinality({p \in DOMAIN student : Holds(r, p)})
         /\ \A i, j \in DOMAIN resources[r].put_queue :
               /\ resources[r].put_queue[i] \notin resources[r].users
               /\ resources[r].put_queue[i] = resources[r].put_queue[j]
                     => i = j
    /\ resources["doc_check"].users \cap resources["registration"].users = {}

\* both pools have a holder and a waiter, and one more unit of registration
\* is granted to a student that has yet to resume
C20_Witness ==
    /\ pc = "run"
    /\ \A r \in Pools : resources[r].users # {} /\ resources[r].put_queue # <<>>
    /\ \E p \in resources["registration"].users : student[p].pc = "reg_req"
====
